---- MODULE Spec2Model ----
(***************************************************************************)
(* minimal-todo (src/main.c): a flat array of fixed-size todo records, a   *)
(* key-dispatch loop, three display filters and a count-prefixed binary    *)
(* data file.                                                              *)
(*                                                                         *)
(* C strings are sequences of ASCII codes (the bytes before the first NUL).*)
(* todos is the live part of the array, a function on 0..todo_count-1.     *)
(* The slots at and beyond todo_count are left out: the program never      *)
(* reads one before writing it (add_todo sets the text, empties the        *)
(* category and zeroes due_date and done), except in load_todos on a       *)
(* truncated file, where they are the zeroes of a fresh process image.     *)
(* Lines typed at a prompt are shorter than MAX_LENGTH: getstr has no      *)
(* bound, and a longer line overruns the buffer it is read into.           *)
(***************************************************************************)
EXTENDS Integers, Sequences, FiniteSets

\* Capacity of todos[] (src/main.c:13 has 100; the model checks a small array).
MAX_TODOS == 3
\* Size of every text buffer (src/main.c:14).
MAX_LENGTH == 128

VARIABLES
    pc,               \* "start" (before load_todos), "browsing" (the getch loop),
                      \* "exited" (after return 0), "corrupt" (todo_count outside
                      \* todos[]), "reloaded" (a later process, after its load_todos)
    file,             \* contents of DATA_FILE
    todos,            \* Todo todos[MAX_TODOS], slots 0..todo_count-1
    todo_count,       \* int todo_count
    selected,         \* int selected
    filter_category,  \* char filter_category[MAX_LENGTH]
    filter_done,      \* int filter_done: -1 all, 0 pending, 1 done
    search_term,      \* char search_term[MAX_LENGTH]
    screen,           \* what draw_screen last put on the terminal
    cfg,              \* what is followed: the keys whose handling the history
                      \* variables record, and the lines typed at each prompt
    key,              \* history: the watched key handled last, "-" for any other,
                      \* "q" after the quit, "none" at a start, "load" after
                      \* load_todos
    line,             \* history: the line typed at that key's prompt
    old_count,        \* history: todo_count before that key
    old_selected,     \* history: selected before that key
    io,               \* history: outcome of the last fopen ("none", "opened", "failed")
    saved             \* history: the store save_todos was called on, until the next key

vars == <<pc, file, todos, todo_count, selected, filter_category,
          filter_done, search_term, screen, cfg, key, line, old_count, old_selected,
          io, saved>>

----------------------------------------------------------------------------
\* Strings

NULL == -1

Min(a, b) == IF a < b THEN a ELSE b

\* Variant of tolower: every byte is left as it is.
tolower_keeps_case(c) == c

\* tolower() in the C locale.
tolower(c) == IF c \in 65..90 THEN c + 32 ELSE c

\* The first n elements of s (all of s when it is shorter).
Take(s, n) == SubSeq(s, 1, Min(n, Len(s)))

\* strncpy(dst, src, MAX_LENGTH - 1) into a buffer whose last byte is NUL:
\* the string the buffer then holds.
strncpy(src, n) == Take(src, n)

\* strcasecmp(s1, s2): 0 when equal ignoring case, else the difference of the
\* first pair of lowered bytes that differ (NUL = 0 at the end of a string).
RECURSIVE strcasecmp(_, _)
strcasecmp(s1, s2) ==
    LET c1 == IF s1 = <<>> THEN 0 ELSE tolower(Head(s1))
        c2 == IF s2 = <<>> THEN 0 ELSE tolower(Head(s2))
    IN  IF c1 # c2 THEN c1 - c2
        ELSE IF c1 = 0 THEN 0
        ELSE strcasecmp(Tail(s1), Tail(s2))

\* Whether needle is a case-insensitive prefix of hay.
RECURSIVE casePrefix(_, _)
casePrefix(hay, needle) ==
    IF needle = <<>> THEN TRUE
    ELSE IF hay = <<>> THEN FALSE
    ELSE IF tolower(Head(hay)) # tolower(Head(needle)) THEN FALSE
    ELSE casePrefix(Tail(hay), Tail(needle))

\* strcasestr(haystack, needle): offset of the first case-insensitive
\* occurrence of needle in haystack, or NULL.
RECURSIVE strcasestrFrom(_, _, _)
strcasestrFrom(hay, needle, off) ==
    IF casePrefix(hay, needle) THEN off
    ELSE IF hay = <<>> THEN NULL
    ELSE strcasestrFrom(Tail(hay), needle, off + 1)

strcasestr(haystack, needle) == strcasestrFrom(haystack, needle, 0)

\* isspace() and isdigit() in the C locale.
isspace(c) == c = 32 \/ c \in 9..13
isdigit(c) == c \in 48..57

RECURSIVE skip_space(_)
skip_space(s) == IF s # <<>> /\ isspace(Head(s)) THEN skip_space(Tail(s)) ELSE s

\* The decimal digits at the front of s, read onto acc: the value, how many
\* digits were read, and what follows them.
RECURSIVE scan_digits(_, _, _)
scan_digits(s, acc, n) ==
    IF s # <<>> /\ isdigit(Head(s))
    THEN scan_digits(Tail(s), acc * 10 + (Head(s) - 48), n + 1)
    ELSE [val |-> acc, digits |-> n, rest |-> s]

\* One %d conversion of sscanf: white space, an optional sign, digits.
\* end: the input ran out before anything was read for the conversion.
scan_int(s) ==
    LET t      == skip_space(s)
        signed == t # <<>> /\ Head(t) \in {43, 45}
        body   == IF signed THEN Tail(t) ELSE t
        num    == scan_digits(body, 0, 0)
    IN  [ok   |-> num.digits > 0,
         end  |-> t = <<>>,
         val  |-> IF signed /\ Head(t) = 45 THEN 0 - num.val ELSE num.val,
         rest |-> num.rest]

\* sscanf(date_str, "%d-%d-%d", &year, &mon, &mday): the number of
\* conversions made (EOF = -1 when the input ends before the first) and the
\* values converted; a field not converted keeps the 0 of tm_date = {0}.
sscanf_date(date_str) ==
    LET a == scan_int(date_str)
        b == scan_int(Tail(a.rest))
        c == scan_int(Tail(b.rest))
    IN  IF ~a.ok THEN [n |-> IF a.end THEN -1 ELSE 0, year |-> 0, mon |-> 0, mday |-> 0]
        ELSE IF a.rest = <<>> \/ Head(a.rest) # 45 \/ ~b.ok
             THEN [n |-> 1, year |-> a.val, mon |-> 0, mday |-> 0]
        ELSE IF b.rest = <<>> \/ Head(b.rest) # 45 \/ ~c.ok
             THEN [n |-> 2, year |-> a.val, mon |-> b.val, mday |-> 0]
        ELSE [n |-> 3, year |-> a.val, mon |-> b.val, mday |-> c.val]

\* Days from 1970-01-01 to the civil date y-m-d (m in 1..12), proleptic
\* Gregorian calendar.
days_from_civil(y, m, d) ==
    LET yy  == IF m <= 2 THEN y - 1 ELSE y
        era == yy \div 400
        yoe == yy - era * 400
        mp  == IF m > 2 THEN m - 3 ELSE m + 9
        doy == (153 * mp + 2) \div 5 + d - 1
        doe == yoe * 365 + yoe \div 4 - yoe \div 100 + doy
    IN  era * 146097 + doe - 719468

\* mktime() of a struct tm holding only tm_year, tm_mon and tm_mday (the other
\* fields 0), local time being UTC: a month outside 0..11 carries into the
\* year, a day outside the month carries on linearly.
mktime(tm_year, tm_mon, tm_mday) ==
    LET year == tm_year + 1900 + (tm_mon \div 12)
        mon  == tm_mon % 12
    IN  (days_from_civil(year, mon + 1, 1) + (tm_mday - 1)) * 86400

\* Sample strings.
s_empty  == <<>>
s_Milk   == <<77, 105, 108, 107>>            \* "Milk"
s_Bob    == <<66, 111, 98>>                  \* "Bob"
s_mil    == <<109, 105, 108>>                \* "mil"
s_Work   == <<87, 111, 114, 107>>            \* "Work"
s_work   == <<119, 111, 114, 107>>           \* "work"
s_WORK   == <<87, 79, 82, 75>>               \* "WORK"
s_Work2  == <<87, 111, 114, 107, 50>>        \* "Work2"
s_Family == <<70, 97, 109, 105, 108, 121>>   \* "Family"
s_OR     == <<79, 82>>                       \* "OR"
s_nodate == <<110, 111, 116, 45, 97, 45, 100, 97, 116, 101>>   \* "not-a-date"
s_date   == <<50, 48, 50, 52, 45, 48, 49, 45, 49, 53>>         \* "2024-01-15"
s_date13 == <<50, 48, 50, 52, 45, 49, 51, 45, 52, 53>>         \* "2024-13-45"
s_date2  == <<50, 48, 50, 52, 45, 48, 49>>                     \* "2024-01"
s_All     == <<65, 108, 108>>   \* "All"
s_None    == <<78, 111, 110, 101>>   \* "None"
s_BuyMilk  == <<66, 117, 121, 32, 109, 105, 108, 107>>   \* "Buy milk"
s_CallBob  == <<67, 97, 108, 108, 32, 66, 111, 98>>   \* "Call Bob"
s_Errands  == <<69, 114, 114, 97, 110, 100, 115>>   \* "Errands"
s_errands  == <<101, 114, 114, 97, 110, 100, 115>>   \* "errands"
s_ERRANDS  == <<69, 82, 82, 65, 78, 68, 83>>   \* "ERRANDS"
s_eRrAnDs  == <<101, 82, 114, 65, 110, 68, 115>>   \* "eRrAnDs"

----------------------------------------------------------------------------
\* Records and the data file

Todo(t, c, d, x) == [text |-> t, category |-> c, due_date |-> d, done |-> x]

\* A slot of the zero-initialised array.
ZeroTodo == Todo(<<>>, <<>>, 0, 0)

\* The store of no records.
NoTodos == [i \in {} |-> ZeroTodo]

\* The indices of a store of cnt records, none past the array.
Live(cnt) == 0..(Min(cnt, MAX_TODOS) - 1)

\* No data file in the working directory.
NoFile == [exists |-> FALSE, hasCount |-> FALSE, count |-> 0, recs |-> <<>>]

\* A data file: the count field (absent in a file shorter than an int) and the
\* complete records that follow it.
DataFile(hc, c, rs) == [exists |-> TRUE, hasCount |-> hc, count |-> c, recs |-> rs]

\* What save_todos holds for a store: nothing saved yet.
NoSave == [called |-> FALSE, written |-> FALSE, count |-> 0, recs |-> NoTodos]

\* The sample records of the data files present at the first start.
SampleTodo(i) ==
    IF i % 2 = 1 THEN Todo(s_Milk, s_empty, 0, 0)
    ELSE Todo(s_Bob, s_Work, 0, 1)

SampleRecs(k) == [i \in 1..k |-> SampleTodo(i)]

\* The data file of the sessions followed key by key: a complete one of two
\* records.
SessionFiles == {DataFile(TRUE, 2, SampleRecs(2))}

\* Records of the data files a start may find.
FileTodos ==
    {Todo(s_Milk, s_empty, 0, 0),
     Todo(s_Bob, s_Work, 1735689600, 1),
     Todo(s_Milk, s_Family, 1735689600, 0)}

\* The sequences of at most n elements of S.
RECURSIVE SeqsUpTo(_, _)
SeqsUpTo(S, n) ==
    IF n = 0 THEN {<<>>}
    ELSE LET shorter == SeqsUpTo(S, n - 1)
         IN  shorter \cup {Append(q, x) : q \in {r \in shorter : Len(r) = n - 1}, x \in S}

\* The data files a start may find: none, one shorter than a count field, and
\* count fields 0..MAX_TODOS+1 followed by 0..MAX_TODOS+1 complete records
\* (fewer than the count: a truncated file).
LoadFiles ==
    {NoFile, DataFile(FALSE, 0, <<>>)}
    \cup {DataFile(TRUE, c, rs) : c \in 0..(MAX_TODOS + 1),
                                  rs \in SeqsUpTo(FileTodos, MAX_TODOS + 1)}

\* No line was typed.
NoLine == <<0>>

\* The keys recorded and the lines typed at the prompts ("New todo: " and
\* "Edit todo: ", "Category: ", "Due date", "Filter by category", "Search: ").
Followed(w, ts, cs, ds, fs, ss) ==
    [watch |-> w, text |-> ts, category |-> cs, due |-> ds, filter |-> fs, search |-> ss]

----------------------------------------------------------------------------
\* Filter predicate and rendering

\* Variant of todo_matches_filter: the category filter matched as a
\* substring, like the search term.
todo_matches_filter_substring(idx) ==
    IF filter_done # -1 /\ todos[idx].done # filter_done THEN 0
    ELSE IF filter_category # <<>>
            /\ strcasestr(todos[idx].category, filter_category) = NULL THEN 0
    ELSE IF search_term # <<>>
            /\ strcasestr(todos[idx].text, search_term) = NULL
            /\ strcasestr(todos[idx].category, search_term) = NULL THEN 0
    ELSE 1

\* Variant of todo_matches_filter: a record of the filtered category passes
\* whatever the search term.
todo_matches_filter_category_first(idx) ==
    IF filter_done # -1 /\ todos[idx].done # filter_done THEN 0
    ELSE IF filter_category # <<>>
            /\ strcasecmp(todos[idx].category, filter_category) = 0 THEN 1
    ELSE IF filter_category # <<>> THEN 0
    ELSE IF search_term # <<>>
            /\ strcasestr(todos[idx].text, search_term) = NULL
            /\ strcasestr(todos[idx].category, search_term) = NULL THEN 0
    ELSE 1

\* todo_matches_filter(idx): 1 when todos[idx] passes the three filters.
todo_matches_filter(idx) ==
    IF filter_done # -1 /\ todos[idx].done # filter_done THEN 0
    ELSE IF filter_category # <<>>
            /\ strcasecmp(todos[idx].category, filter_category) # 0 THEN 0
    ELSE IF search_term # <<>>
            /\ strcasestr(todos[idx].text, search_term) = NULL
            /\ strcasestr(todos[idx].category, search_term) = NULL THEN 0
    ELSE 1

\* The for loop of draw_screen: the indices it prints a row for, which it
\* does in increasing order, one screen line each.
drawRows == {i \in 0..(todo_count - 1) : todo_matches_filter(i) = 1}

\* The "Filter: %s | Status: %s | Search: %s" line of draw_screen.
drawHeader ==
    [filter |-> IF filter_category # <<>> THEN filter_category ELSE s_All,
     status |-> IF filter_done = -1 THEN "All"
                ELSE IF filter_done = 0 THEN "Pending" ELSE "Done",
     search |-> IF search_term # <<>> THEN search_term ELSE s_None]

\* The terminal before the first draw_screen.
BlankScreen ==
    [header   |-> [filter |-> <<>>, status |-> "", search |-> <<>>],
     rows     |-> {},
     reversed |-> {},
     nomatch  |-> FALSE]

\* draw_screen(): the filter line, the rows printed (as store indices, each
\* showing its record), those printed in reverse video, and whether
\* "No matching todos found." is shown (visible_count == 0). The title and the
\* footer are the same on every screen.
draw_screen ==
    [header   |-> drawHeader,
     rows     |-> drawRows,
     reversed |-> drawRows \cap {selected},
     nomatch  |-> Cardinality(drawRows) = 0]

----------------------------------------------------------------------------
\* Persistence

\* fopen(DATA_FILE, "rb"): fails when there is no file, and may fail on one
\* that exists (unreadable).
fopen_rb(f) == IF f.exists THEN {TRUE, FALSE} ELSE {FALSE}

\* fread(&todo_count, sizeof(int), 1, file): cnt is left alone when the file
\* holds no full count.
fread_count(f, cnt) == IF f.hasCount THEN f.count ELSE cnt

\* fread(todos, sizeof(Todo), todo_count, file): the records present, at most
\* cnt of them, land in todos[0..]; the other slots keep the zeroes of the
\* process image.
fread_todos(f, cnt) ==
    [i \in Live(cnt) |-> IF i < Len(f.recs) THEN f.recs[i + 1] ELSE ZeroTodo]

\* Variant of fwrite_todos: one record too few is written.
fwrite_todos_short(ts, cnt) == DataFile(TRUE, cnt, [i \in 1..(cnt - 1) |-> ts[i - 1]])

\* The two fwrite calls of save_todos: the count, then todos[0..cnt-1].
fwrite_todos(ts, cnt) == DataFile(TRUE, cnt, [i \in 1..cnt |-> ts[i - 1]])

----------------------------------------------------------------------------
\* Store operations

\* Variant of move_down: the test is selected < todo_count.
move_down_past_end(sel, cnt) == IF sel < cnt THEN sel + 1 ELSE sel

\* case 'j': if (selected < todo_count - 1) selected++
move_down(sel, cnt) == IF sel < cnt - 1 THEN sel + 1 ELSE sel

\* case 'k': if (selected > 0) selected--
move_up(sel) == IF sel > 0 THEN sel - 1 ELSE sel

\* Variant of add_accepts: the test is todo_count <= MAX_TODOS.
add_accepts_when_full(new_todo, cnt) == new_todo # <<>> /\ cnt <= MAX_TODOS

\* add_todo's test: new_todo[0] != '\0' && todo_count < MAX_TODOS
add_accepts(new_todo, cnt) == new_todo # <<>> /\ cnt < MAX_TODOS

\* Variant of add_record: the text is copied into the category as well.
add_record_text_as_category(ts, cnt, new_todo) ==
    [i \in 0..cnt |->
        IF i = cnt THEN [text     |-> strncpy(new_todo, MAX_LENGTH - 1),
                         category |-> strncpy(new_todo, MAX_LENGTH - 1),
                         due_date |-> 0,
                         done     |-> 0]
        ELSE ts[i]]

\* The assignments of add_todo to todos[todo_count].
add_record(ts, cnt, new_todo) ==
    [i \in 0..cnt |->
        IF i = cnt THEN [text     |-> strncpy(new_todo, MAX_LENGTH - 1),
                         category |-> <<>>,
                         due_date |-> 0,
                         done     |-> 0]
        ELSE ts[i]]

\* Variant of delete_shift: the loop starts at idx + 1.
delete_shift_from_next(ts, idx, cnt) ==
    [i \in 0..(cnt - 2) |-> IF i >= idx + 1 THEN ts[i + 1] ELSE ts[i]]

\* The shift loop of delete_todo(idx) on a store of cnt records.
delete_shift(ts, idx, cnt) ==
    [i \in 0..(cnt - 2) |-> IF i >= idx THEN ts[i + 1] ELSE ts[i]]

\* Variant of delete_selected: the test is selected > todo_count.
delete_selected_beyond(sel, cnt) == IF sel > cnt /\ sel > 0 THEN sel - 1 ELSE sel

\* delete_todo's adjustment of selected; cnt is todo_count after the decrement.
delete_selected(sel, cnt) == IF sel >= cnt /\ sel > 0 THEN sel - 1 ELSE sel

\* Variant of set_due: a line sscanf cannot convert clears the due date.
set_due_clears_unparsed(due_date, date_str) ==
    IF date_str = <<>> THEN 0
    ELSE LET tm_date == sscanf_date(date_str)
         IN  IF tm_date.n = 3
             THEN mktime(tm_date.year - 1900, tm_date.mon - 1, tm_date.mday)
             ELSE 0

\* The due date set_due_date leaves in a record holding due_date, for the
\* line typed.
set_due(due_date, date_str) ==
    IF date_str = <<>> THEN 0
    ELSE LET tm_date == sscanf_date(date_str)
         IN  IF tm_date.n = 3
             THEN mktime(tm_date.year - 1900, tm_date.mon - 1, tm_date.mday)
             ELSE due_date

\* filter_by_status: (filter_done + 1) % 3 - 1.
next_filter_done(fd) == ((fd + 1) % 3) - 1

----------------------------------------------------------------------------
\* The process: start, load_todos, the key loop, save_todos, exit

\* The globals as the program image sets them (src/main.c:24-29).
InitGlobals ==
    /\ todos = NoTodos
    /\ todo_count = 0
    /\ selected = 0
    /\ filter_category = <<>>
    /\ filter_done = -1
    /\ search_term = <<>>

\* A first start in a directory holding one of the data files fs.
Start(fs, c) ==
    /\ pc = "start"
    /\ file \in fs
    /\ cfg = c
    /\ InitGlobals
    /\ screen = BlankScreen
    /\ key = "none"
    /\ line = NoLine
    /\ old_count = 0
    /\ old_selected = 0
    /\ io = "none"
    /\ saved = NoSave

\* History of one pass through the switch.
Handled(k, l) ==
    /\ key' = IF k \in cfg.watch THEN k ELSE "-"
    /\ line' = IF k \in cfg.watch THEN l ELSE NoLine
    /\ old_count' = IF k \in cfg.watch THEN todo_count ELSE 0
    /\ old_selected' = IF k \in cfg.watch THEN selected ELSE 0
    /\ UNCHANGED cfg
    /\ io' = "none"
    /\ saved' = NoSave

\* load_todos(), called once before the loop. A count outside 0..MAX_TODOS
\* leaves todo_count indexing outside todos[]: the process is not followed
\* further. Nor is a process started after the first one has exited, past its
\* load_todos.
LoadTodos ==
    /\ pc = "start"
    /\ \E opened \in fopen_rb(file) :
         /\ io' = IF opened THEN "opened" ELSE "failed"
         /\ todo_count' = IF opened THEN fread_count(file, todo_count) ELSE todo_count
         /\ todos' = IF opened THEN fread_todos(file, todo_count') ELSE todos
    /\ pc' = IF todo_count' \notin 0..MAX_TODOS THEN "corrupt"
             ELSE IF saved.called THEN "reloaded"
             ELSE "browsing"
    /\ key' = "load"
    /\ UNCHANGED <<file, selected, filter_category, filter_done, search_term,
                   screen, cfg, line, old_count, old_selected, saved>>

\* case 'j': case KEY_DOWN
KeyDown ==
    /\ pc = "browsing"
    /\ selected' = move_down(selected, todo_count)
    /\ UNCHANGED <<pc, file, todos, todo_count, filter_category, filter_done, search_term>>
    /\ Handled("j", NoLine)
    /\ screen' = draw_screen'

\* case 'k': case KEY_UP
KeyUp ==
    /\ pc = "browsing"
    /\ selected' = move_up(selected)
    /\ UNCHANGED <<pc, file, todos, todo_count, filter_category, filter_done, search_term>>
    /\ Handled("k", NoLine)
    /\ screen' = draw_screen'

\* case 'a': add_todo()
KeyAdd ==
    /\ pc = "browsing"
    /\ \E new_todo \in cfg.text :
         /\ IF add_accepts(new_todo, todo_count)
            THEN /\ todos' = add_record(todos, todo_count, new_todo)
                 /\ todo_count' = todo_count + 1
                 /\ selected' = todo_count' - 1
            ELSE UNCHANGED <<todos, todo_count, selected>>
         /\ Handled("a", new_todo)
    /\ UNCHANGED <<pc, file, filter_category, filter_done, search_term>>
    /\ screen' = draw_screen'

\* Variant of KeyDelete: delete_todo is called whatever todo_count is.
KeyDelete_unguarded ==
    /\ pc = "browsing"
    /\ todos' = delete_shift(todos, selected, todo_count)
    /\ todo_count' = todo_count - 1
    /\ selected' = delete_selected(selected, todo_count')
    /\ UNCHANGED <<pc, file, filter_category, filter_done, search_term>>
    /\ Handled("d", NoLine)
    /\ screen' = draw_screen'

\* case 'd': if (todo_count > 0) delete_todo(selected)
KeyDelete ==
    /\ pc = "browsing"
    /\ IF todo_count > 0
       THEN /\ todos' = delete_shift(todos, selected, todo_count)
            /\ todo_count' = todo_count - 1
            /\ selected' = delete_selected(selected, todo_count')
       ELSE UNCHANGED <<todos, todo_count, selected>>
    /\ UNCHANGED <<pc, file, filter_category, filter_done, search_term>>
    /\ Handled("d", NoLine)
    /\ screen' = draw_screen'

\* case ' ': if (todo_count > 0) toggle_todo(selected)
KeyToggle ==
    /\ pc = "browsing"
    /\ IF todo_count > 0
       THEN todos' = [todos EXCEPT ![selected].done = IF @ = 0 THEN 1 ELSE 0]
       ELSE UNCHANGED todos
    /\ UNCHANGED <<pc, file, todo_count, selected, filter_category, filter_done, search_term>>
    /\ Handled(" ", NoLine)
    /\ screen' = draw_screen'

\* case 'e': if (todo_count > 0) edit_todo(selected)
KeyEdit ==
    /\ pc = "browsing"
    /\ IF todo_count > 0
       THEN \E edit \in cfg.text :
              /\ todos' = IF edit # <<>>
                          THEN [todos EXCEPT ![selected].text = strncpy(edit, MAX_LENGTH - 1)]
                          ELSE todos
              /\ Handled("e", edit)
       ELSE /\ UNCHANGED todos
            /\ Handled("e", NoLine)
    /\ UNCHANGED <<pc, file, todo_count, selected, filter_category, filter_done, search_term>>
    /\ screen' = draw_screen'

\* case 'D': if (todo_count > 0) set_due_date(selected)
KeyDue ==
    /\ pc = "browsing"
    /\ IF todo_count > 0
       THEN \E date_str \in cfg.due :
              /\ todos' = [todos EXCEPT ![selected].due_date = set_due(@, date_str)]
              /\ Handled("D", date_str)
       ELSE /\ UNCHANGED todos
            /\ Handled("D", NoLine)
    /\ UNCHANGED <<pc, file, todo_count, selected, filter_category, filter_done, search_term>>
    /\ screen' = draw_screen'

\* Variant of KeySetCategory: an empty line leaves the category as it is.
KeySetCategory_unless_empty ==
    /\ pc = "browsing"
    /\ IF todo_count > 0
       THEN \E category \in cfg.category :
              /\ todos' = IF category # <<>>
                          THEN [todos EXCEPT ![selected].category = strncpy(category, MAX_LENGTH - 1)]
                          ELSE todos
              /\ Handled("c", category)
       ELSE /\ UNCHANGED todos
            /\ Handled("c", NoLine)
    /\ UNCHANGED <<pc, file, todo_count, selected, filter_category, filter_done, search_term>>
    /\ screen' = draw_screen'

\* case 'c': if (todo_count > 0) set_category(selected)
KeySetCategory ==
    /\ pc = "browsing"
    /\ IF todo_count > 0
       THEN \E category \in cfg.category :
              /\ todos' = [todos EXCEPT ![selected].category = strncpy(category, MAX_LENGTH - 1)]
              /\ Handled("c", category)
       ELSE /\ UNCHANGED todos
            /\ Handled("c", NoLine)
    /\ UNCHANGED <<pc, file, todo_count, selected, filter_category, filter_done, search_term>>
    /\ screen' = draw_screen'

\* case 'C': filter_by_category()
KeyFilterCategory ==
    /\ pc = "browsing"
    /\ \E typed \in cfg.filter :
         /\ filter_category' = typed
         /\ Handled("C", typed)
    /\ selected' = 0
    /\ UNCHANGED <<pc, file, todos, todo_count, filter_done, search_term>>
    /\ screen' = draw_screen'

\* case 'f': filter_by_status()
KeyFilterStatus ==
    /\ pc = "browsing"
    /\ filter_done' = next_filter_done(filter_done)
    /\ selected' = 0
    /\ UNCHANGED <<pc, file, todos, todo_count, filter_category, search_term>>
    /\ Handled("f", NoLine)
    /\ screen' = draw_screen'

\* case '/': search_todos()
KeySearch ==
    /\ pc = "browsing"
    /\ \E typed \in cfg.search :
         /\ search_term' = typed
         /\ Handled("/", typed)
    /\ selected' = 0
    /\ UNCHANGED <<pc, file, todos, todo_count, filter_category, filter_done>>
    /\ screen' = draw_screen'

\* Variant of KeyReset: the search term is left as it is.
KeyReset_keeps_search ==
    /\ pc = "browsing"
    /\ filter_category' = <<>>
    /\ filter_done' = -1
    /\ UNCHANGED <<pc, file, todos, todo_count, selected, search_term>>
    /\ Handled("r", NoLine)
    /\ screen' = draw_screen'

\* case 'r': reset filters
KeyReset ==
    /\ pc = "browsing"
    /\ filter_category' = <<>>
    /\ filter_done' = -1
    /\ search_term' = <<>>
    /\ UNCHANGED <<pc, file, todos, todo_count, selected>>
    /\ Handled("r", NoLine)
    /\ screen' = draw_screen'

\* Variant of KeyOther: the store is written to the data file after the key.
KeyOther_saving ==
    /\ pc = "browsing"
    /\ file' = fwrite_todos(todos, todo_count)
    /\ UNCHANGED <<pc, todos, todo_count, selected, filter_category,
                   filter_done, search_term>>
    /\ Handled("other", NoLine)
    /\ screen' = draw_screen'

\* Any key the switch has no case for: only the redraw.
KeyOther ==
    /\ pc = "browsing"
    /\ UNCHANGED <<pc, file, todos, todo_count, selected, filter_category,
                   filter_done, search_term>>
    /\ Handled("other", NoLine)
    /\ screen' = draw_screen'

\* 'q' ends the loop: save_todos(); endwin(); return 0. fopen(DATA_FILE, "wb")
\* may fail, and then nothing is written. The process image is gone after the
\* return: the globals read as those of the next image.
KeyQuit ==
    /\ pc = "browsing"
    /\ \E opened \in BOOLEAN :
         /\ file' = IF opened THEN fwrite_todos(todos, todo_count) ELSE file
         /\ io' = IF opened THEN "opened" ELSE "failed"
         /\ saved' = [called  |-> TRUE,
                      written |-> opened,
                      count   |-> todo_count,
                      recs    |-> todos]
    /\ pc' = "exited"
    /\ key' = "q"
    /\ line' = NoLine
    /\ old_count' = 0
    /\ old_selected' = 0
    /\ todos' = NoTodos
    /\ todo_count' = 0
    /\ selected' = 0
    /\ filter_category' = <<>>
    /\ filter_done' = -1
    /\ search_term' = <<>>
    /\ screen' = BlankScreen
    /\ UNCHANGED cfg

\* The program is started again in the same directory: a fresh process image.
Restart ==
    /\ pc = "exited"
    /\ pc' = "start"
    /\ key' = "none"
    /\ UNCHANGED <<file, todos, todo_count, selected, filter_category, filter_done,
                   search_term, screen, cfg, line, old_count, old_selected, io, saved>>

Next ==
    \/ LoadTodos
    \/ KeyDown
    \/ KeyUp
    \/ KeyAdd
    \/ KeyDelete
    \/ KeyToggle
    \/ KeyEdit
    \/ KeyDue
    \/ KeySetCategory
    \/ KeyFilterCategory
    \/ KeyFilterStatus
    \/ KeySearch
    \/ KeyReset
    \/ KeyOther
    \/ KeyQuit
    \/ Restart

\* The lines typed in the sessions followed key by key.
SessionLines(w) ==
    Followed(w, {s_empty, s_Milk, s_Bob}, {s_empty}, {s_empty, s_nodate},
             {s_empty}, {s_empty, s_mil})

\* Sessions on a well-formed data file, the history variables recording the
\* keys that change the store's size.
Init == Start(SessionFiles, SessionLines({"a", "d"}))

Spec == Init /\ [][Next]_vars

\* The same sessions, the history variables recording the status key.
InitStatus == Start(SessionFiles, SessionLines({"f"}))

SpecStatus == InitStatus /\ [][Next]_vars

\* The same sessions with every class of line typed at the due date prompt,
\* the history variables recording the due date key.
InitDue ==
    Start(SessionFiles,
          Followed({"D"}, {s_empty}, {s_empty},
                   {s_empty, s_date, s_date13, s_date2, s_nodate}, {s_empty}, {s_empty}))

SpecDue == InitDue /\ [][Next]_vars

\* Starts on every data file of LoadFiles, followed through load_todos, an
\* immediate 'q' and the next start's load_todos.
InitFile == Start(LoadFiles, Followed({}, {}, {}, {}, {}, {}))

NextFile ==
    \/ LoadTodos
    \/ KeyQuit
    \/ Restart

SpecFile == InitFile /\ [][NextFile]_vars

\* The redraw after a key, on every one-record store and filter state of the
\* sets below: todo_matches_filter as draw_screen applies it.
MatchTexts      == {s_Milk, s_Bob}
MatchCategories == {s_empty, s_work, s_Work, s_WORK, s_Work2, s_Family}
MatchFilters    == {s_empty, s_Work, s_work}
MatchSearches   == {s_empty, s_mil, s_OR, s_Work2}

InitMatch ==
    /\ pc = "browsing"
    /\ file = NoFile
    /\ cfg = Followed({"other"}, {}, {}, {}, {}, {})
    /\ todo_count = 1
    /\ \E t \in MatchTexts, c \in MatchCategories, x \in {0, 1} :
         todos = [i \in {0} |-> Todo(t, c, 0, x)]
    /\ selected = 0
    /\ filter_category \in MatchFilters
    /\ filter_done \in {-1, 0, 1}
    /\ search_term \in MatchSearches
    /\ screen = BlankScreen
    /\ key = "-"
    /\ line = NoLine
    /\ old_count = 0
    /\ old_selected = 0
    /\ io = "none"
    /\ saved = NoSave

NextMatch == KeyOther

SpecMatch == InitMatch /\ [][NextMatch]_vars

\* Sessions that start with no data file, in which records are added, the
\* selection is moved, categories are set and the category filter is typed:
\* "Buy milk", "Call Bob", "Errands" and "errands" in three spellings.
InitErrands ==
    Start({NoFile},
          Followed({"C"}, {s_BuyMilk, s_CallBob}, {s_Errands}, {},
                   {s_errands, s_ERRANDS, s_eRrAnDs}, {}))

NextErrands ==
    \/ LoadTodos
    \/ KeyAdd
    \/ KeyDown
    \/ KeyUp
    \/ KeySetCategory
    \/ KeyFilterCategory

SpecErrands == InitErrands /\ [][NextErrands]_vars

\* Sessions on the two records of the data file in which the selection is
\* moved, the selected record is toggled, edited, given a category and a due
\* date, and the category filter and the search term are typed, the history
\* variables recording the toggle, edit and category keys.
InitMutate ==
    Start(SessionFiles,
          Followed({" ", "e", "c"}, {s_empty, s_Bob}, {s_empty, s_Work}, {s_date},
                   {s_empty, s_Work}, {s_empty, s_mil}))

NextMutate ==
    \/ LoadTodos
    \/ KeyDown
    \/ KeyUp
    \/ KeyToggle
    \/ KeyEdit
    \/ KeyDue
    \/ KeySetCategory
    \/ KeyFilterCategory
    \/ KeySearch

SpecMutate == InitMutate /\ [][NextMutate]_vars

\* Sessions on the two records of the data file, or on the empty store when it
\* cannot be opened, in which the selection is moved down, the three filter
\* commands are given and the selected record is deleted, toggled, edited,
\* given a due date and a category, the history variables recording all of
\* these but the move.
InitGuard ==
    Start(SessionFiles,
          Followed({"C", "f", "/", "d", " ", "e", "D", "c"},
                   {s_Milk}, {s_empty}, {s_nodate}, {s_Work}, {s_mil}))

NextGuard ==
    \/ LoadTodos
    \/ KeyDown
    \/ KeyDelete
    \/ KeyToggle
    \/ KeyEdit
    \/ KeyDue
    \/ KeySetCategory
    \/ KeyFilterCategory
    \/ KeyFilterStatus
    \/ KeySearch

SpecGuard == InitGuard /\ [][NextGuard]_vars

\* The redraw after one filter criterion is set, or all three are reset, on
\* every two-record store and filter state of the sets below:
\* todo_matches_filter under a filter state and under the one that follows it.
NarrowTexts      == {s_Milk, s_Bob}
NarrowCategories == {s_empty, s_Work}
NarrowFilters    == {s_empty, s_work}
NarrowSearches   == {s_empty, s_mil, s_OR}

\* todo_matches_filter read with filter_done 0 or 1 in place of -1, the rest
\* of its input as it is, and the redraw. No key makes this step
\* (filter_by_status returns the value it is given): it supplies the
\* predicate's third input, as InitNarrow supplies the others.
SetStatusFilter ==
    /\ pc = "browsing"
    /\ filter_done = -1
    /\ filter_done' \in {0, 1}
    /\ UNCHANGED <<pc, file, todos, todo_count, selected, filter_category, search_term>>
    /\ Handled("status", NoLine)
    /\ screen' = draw_screen'

InitNarrow ==
    /\ pc = "browsing"
    /\ file = NoFile
    /\ cfg = Followed({"/", "r"}, {}, {}, {}, NarrowFilters, NarrowSearches)
    /\ todo_count = 2
    /\ \E t0 \in NarrowTexts, t1 \in NarrowTexts,
          c0 \in NarrowCategories, c1 \in NarrowCategories,
          x0 \in {0, 1}, x1 \in {0, 1} :
         todos = [i \in {0, 1} |-> IF i = 0 THEN Todo(t0, c0, 0, x0) ELSE Todo(t1, c1, 0, x1)]
    /\ selected = 0
    /\ filter_category \in NarrowFilters
    /\ filter_done \in {-1, 0, 1}
    /\ search_term \in NarrowSearches
    /\ screen = BlankScreen
    /\ key = "-"
    /\ line = NoLine
    /\ old_count = 0
    /\ old_selected = 0
    /\ io = "none"
    /\ saved = NoSave

NextNarrow ==
    \/ SetStatusFilter
    \/ KeyFilterCategory
    \/ KeySearch
    \/ KeyReset

SpecNarrow == InitNarrow /\ [][NextNarrow]_vars

----------------------------------------------------------------------------
\* Properties

\* The completion filter one step further along all -> pending -> done -> all.
CycleNext(fd) == IF fd = -1 THEN 0 ELSE IF fd = 0 THEN 1 ELSE -1

\* C1: each press of 'f' advances the completion filter one step along the
\* cycle all (-1) -> pending (0) -> done (1) -> all (-1).
C1_StatusAdvances ==
    [][key' = "f" => filter_done' = CycleNext(filter_done)]_vars

\* The data file holds a count and at least that many complete records, and
\* load_todos could open it.
CompleteFile ==
    /\ io = "opened"
    /\ file.hasCount
    /\ Len(file.recs) >= file.count

\* C2: after load_todos the store is empty unless the data file exists, is
\* readable and is complete.
C2_EmptyUnlessComplete ==
    (key = "load" /\ ~CompleteFile) => todo_count = 0

\* C3: in every reachable state the store size is at most the capacity.
C3_CountWithinCapacity == todo_count <= MAX_TODOS

\* C4: in every reachable state the selected cursor is a valid index of the
\* unfiltered store, and 0 when the store is empty.
C4_SelectedValid ==
    /\ todo_count > 0 => (0 <= selected /\ selected <= todo_count - 1)
    /\ todo_count = 0 => selected = 0

\* A delete of the last record with the selection on it has moved the
\* selection to the new last record.
C4_Witness ==
    /\ key = "d"
    /\ old_count >= 2
    /\ old_selected = old_count - 1
    /\ selected = todo_count - 1

\* C5: a store written by save_todos and read back by load_todos in a fresh
\* process is the same store: the same count and the same record at every
\* position (both fopen calls having succeeded).
C5_RoundTrip ==
    (key = "load" /\ saved.called /\ saved.written /\ io = "opened") =>
        /\ todo_count = saved.count
        /\ DOMAIN todos = 0..(saved.count - 1)
        /\ \A i \in 0..(saved.count - 1) :
             /\ todos[i].text = saved.recs[i].text
             /\ todos[i].category = saved.recs[i].category
             /\ todos[i].due_date = saved.recs[i].due_date
             /\ todos[i].done = saved.recs[i].done

\* A store of at least two records, one of them done and with a due date, has
\* been saved and read back.
C5_Witness ==
    /\ key = "load"
    /\ saved.called /\ saved.written /\ io = "opened"
    /\ saved.count >= 2
    /\ \E i \in 0..(saved.count - 1) :
         saved.recs[i].due_date # 0 /\ saved.recs[i].done = 1
    /\ saved.recs[0] # saved.recs[1]

\* Two bytes that are the same letter, whatever their case.
SameLetter(c, d) ==
    \/ c = d
    \/ c \in 65..90 /\ d = c + 32
    \/ d \in 65..90 /\ c = d + 32

\* a and b are the same string up to the case of their letters.
EqualIgnoringCase(a, b) ==
    /\ Len(a) = Len(b)
    /\ \A i \in 1..Len(a) : SameLetter(a[i], b[i])

\* term occurs in s at some offset, up to the case of its letters.
OccursIgnoringCase(term, s) ==
    \E off \in 0..(Len(s) - Len(term)) :
        \A i \in 1..Len(term) : SameLetter(s[off + i], term[i])

\* The three rules of the filter on record r.
StatusRule(r)   == filter_done = -1 \/ r.done = filter_done
CategoryRule(r) == filter_category = <<>> \/ EqualIgnoringCase(r.category, filter_category)
SearchRule(r)   ==
    \/ search_term = <<>>
    \/ OccursIgnoringCase(search_term, r.text)
    \/ OccursIgnoringCase(search_term, r.category)

\* C6: todo_matches_filter reports a record visible, and the redraw prints
\* its row, exactly when the status rule, the whole-string case-insensitive
\* category rule and the case-insensitive substring search rule all hold.
C6_MatchesExactlyTheRules ==
    \A i \in 0..(todo_count - 1) :
        LET visible == StatusRule(todos[i]) /\ CategoryRule(todos[i]) /\ SearchRule(todos[i])
        IN  /\ (todo_matches_filter(i) = 1) <=> visible
            /\ key = "other" => (i \in screen.rows <=> visible)

\* A done record of category "WORK" is drawn under the filters done-only,
\* category "Work" and search "OR", which only its category contains.
C6_Witness ==
    /\ key = "other"
    /\ filter_done = 1 /\ filter_category = s_Work /\ search_term = s_OR
    /\ todos[0].done = 1 /\ todos[0].category = s_WORK /\ todos[0].text = s_Milk
    /\ screen.rows = {0}

\* C7: deleting index i of a store of n >= 1 records leaves n-1 records, those
\* formerly at i+1..n-1 now at i..n-2 in the same order, those at 0..i-1
\* unchanged.
C7_DeleteCompacts ==
    [][(key' = "d" /\ todo_count >= 1) =>
        /\ todo_count' = todo_count - 1
        /\ DOMAIN todos' = 0..(todo_count - 2)
        /\ \A j \in 0..(selected - 1) : todos'[j] = todos[j]
        /\ \A j \in (selected + 1)..(todo_count - 1) : todos'[j - 1] = todos[j]
      ]_vars

\* The middle record of three has been deleted, the two left differing.
C7_Witness ==
    /\ key = "d"
    /\ old_count = 3
    /\ old_selected = 1
    /\ todo_count = 2
    /\ todos[0] # todos[1]

\* C8: an add of non-empty text below capacity appends one record with that
\* text, empty category, no due date and done = 0 at position count, leaves
\* the records before it unchanged, raises count by one and selects the new
\* last record.
C8_AddAppends ==
    [][(key' = "a" /\ line' # <<>> /\ todo_count < MAX_TODOS) =>
        /\ todo_count' = todo_count + 1
        /\ DOMAIN todos' = 0..todo_count
        /\ todos'[todo_count].text = line'
        /\ todos'[todo_count].category = <<>>
        /\ todos'[todo_count].due_date = 0
        /\ todos'[todo_count].done = 0
        /\ \A j \in 0..(todo_count - 1) : todos'[j] = todos[j]
        /\ selected' = todo_count' - 1
      ]_vars

\* "Bob" has been added as the third record while the first was selected.
C8_Witness ==
    /\ key = "a"
    /\ line = s_Bob
    /\ old_count = 2
    /\ old_selected = 0
    /\ todo_count = 3
    /\ selected = 2

\* C9: an add on a full store, or of blank text, changes neither the count,
\* nor any record, nor the selection, nor the filter state.
C9_RejectedAddChangesNothing ==
    [][(key' = "a" /\ (line' = <<>> \/ todo_count = MAX_TODOS)) =>
        UNCHANGED <<todo_count, todos, selected, filter_category, filter_done, search_term>>
      ]_vars

\* Non-blank text has been typed at the add prompt on a full store, under a
\* search filter and with the selection off the first record.
C9_Witness ==
    /\ key = "a"
    /\ line = s_Milk
    /\ old_count = MAX_TODOS
    /\ todo_count = MAX_TODOS
    /\ search_term = s_mil
    /\ selected = 1

\* C10: after a delete the selection is the new last index when it was at or
\* beyond the new end, 0 when the store became empty, and otherwise unchanged.
C10_DeleteReselects ==
    [][(key' = "d" /\ todo_count >= 1) =>
        selected' = IF todo_count' = 0 THEN 0
                    ELSE IF selected >= todo_count' THEN todo_count' - 1
                    ELSE selected
      ]_vars

\* The last of three records has been deleted while selected: the selection
\* is on the second, the new last.
C10_Witness ==
    /\ key = "d"
    /\ old_count = 3
    /\ old_selected = 2
    /\ todo_count = 2
    /\ selected = 1

\* C11: in every reachable state every record of the store (index
\* 0..count-1) has non-empty text.
C11_TextNeverEmpty ==
    \A i \in 0..(todo_count - 1) : i \in DOMAIN todos => todos[i].text # <<>>

\* The same, in the sessions that start on a complete data file: what add_todo
\* and edit_todo keep.
TextKeptNonEmpty ==
    pc = "browsing" => \A i \in 0..(todo_count - 1) : todos[i].text # <<>>

\* A non-empty string of decimal digits, and the number it writes.
IsDigits(s) == s # <<>> /\ \A i \in 1..Len(s) : s[i] \in 48..57

RECURSIVE Number(_)
Number(s) == IF s = <<>> THEN 0 ELSE Number(SubSeq(s, 1, Len(s) - 1)) * 10 + (s[Len(s)] - 48)

\* The readings of s as three numeric components year-month-day.
DateParts(s) ==
    {<<Number(SubSeq(s, 1, p - 1)), Number(SubSeq(s, p + 1, q - 1)),
       Number(SubSeq(s, q + 1, Len(s)))>> :
        <<p, q>> \in {pq \in (1..Len(s)) \X (1..Len(s)) :
                        /\ pq[1] < pq[2]
                        /\ s[pq[1]] = 45
                        /\ s[pq[2]] = 45
                        /\ IsDigits(SubSeq(s, 1, pq[1] - 1))
                        /\ IsDigits(SubSeq(s, pq[1] + 1, pq[2] - 1))
                        /\ IsDigits(SubSeq(s, pq[2] + 1, Len(s)))}}

IsLeap(y) == (y % 4 = 0 /\ y % 100 # 0) \/ y % 400 = 0

MonthDays(y, m) ==
    IF m = 2 THEN (IF IsLeap(y) THEN 29 ELSE 28)
    ELSE IF m \in {4, 6, 9, 11} THEN 30 ELSE 31

\* Days from 1 January 1970 to 1 January of y (y >= 1970), and from 1 January
\* of y to the first of month m.
RECURSIVE DaysToYear(_)
DaysToYear(y) ==
    IF y <= 1970 THEN 0 ELSE DaysToYear(y - 1) + (IF IsLeap(y - 1) THEN 366 ELSE 365)

RECURSIVE DaysToMonth(_, _)
DaysToMonth(y, m) == IF m <= 1 THEN 0 ELSE DaysToMonth(y, m - 1) + MonthDays(y, m - 1)

\* Midnight of the calendar date y-m-d in seconds since 1970, months past
\* December counted into the following years and days past the end of the
\* month into the following months.
CalendarDate(y, m, d) ==
    LET yy == y + ((m - 1) \div 12)
        mm == ((m - 1) % 12) + 1
    IN  (DaysToYear(yy) + DaysToMonth(yy, mm) + (d - 1)) * 86400

\* C12: set due date on the selected record has three outcomes by the line
\* typed: an empty line clears the due date (0); a line of three numeric
\* components year-month-day sets it to that calendar date, built even from
\* out-of-range parts (2024-13-45 is 14 February 2025); any other line leaves
\* the prior due date unchanged.
C12_DueDateOutcomes ==
    [][(key' = "D" /\ todo_count > 0) =>
        LET before == todos[selected].due_date
            after  == todos'[selected].due_date
        IN  IF line' = <<>> THEN after = 0
            ELSE IF DateParts(line') # {}
                 THEN \A p \in DateParts(line') : after = CalendarDate(p[1], p[2], p[3])
            ELSE after = before
      ]_vars

\* "not-a-date" has been typed for a record whose due date 2024-13-45 had
\* set, and which kept it, while another record is due on 2024-01-15.
C12_Witness ==
    /\ key = "D"
    /\ line = s_nodate
    /\ todo_count >= 2
    /\ todos[selected].due_date = CalendarDate(2025, 2, 14)
    /\ \E i \in 0..(todo_count - 1) : todos[i].due_date = CalendarDate(2024, 1, 15)

\* C13: persistence happens only at the two ends of a process: load_todos
\* runs once, at the start and before any key is read; no key but 'q' writes
\* the data file; 'q' calls save_todos once, on the store as it then is, and
\* the process returns.
C13_PersistsOnlyAtEnds ==
    [][/\ (key' = "load") <=> (pc = "start")
       /\ (pc' = "browsing" /\ pc # "browsing") => key' = "load"
       /\ (file' # file) => key' = "q"
       /\ (key' = "q") =>
            /\ pc = "browsing"
            /\ pc' = "exited"
            /\ saved'.called
            /\ saved'.count = todo_count
            /\ saved'.recs = todos
            /\ saved'.written =>
                 /\ file'.exists /\ file'.hasCount
                 /\ file'.count = todo_count
                 /\ Len(file'.recs) = todo_count
                 /\ \A i \in 0..(todo_count - 1) : file'.recs[i + 1] = todos[i]
            /\ ~saved'.written => file' = file
      ]_vars

\* A process has returned after 'q' saved a store of three records, one more
\* than it had loaded.
C13_Witness ==
    /\ pc = "exited"
    /\ key = "q"
    /\ saved.called /\ saved.written
    /\ saved.count = 3
    /\ file.count = 3
    /\ Len(file.recs) = 3

\* One criterion goes from inactive to active, the other two staying as they
\* are.
OneCriterionAdded ==
    \/ /\ filter_done = -1 /\ filter_done' # -1
       /\ UNCHANGED <<filter_category, search_term>>
    \/ /\ filter_category = <<>> /\ filter_category' # <<>>
       /\ UNCHANGED <<filter_done, search_term>>
    \/ /\ search_term = <<>> /\ search_term' # <<>>
       /\ UNCHANGED <<filter_done, filter_category>>

\* C14: on the same store, making one criterion active (status, category
\* filter or search term) with the other two fixed yields a visible set that
\* is a subset of the visible set before.
C14_AddedCriterionNarrows ==
    [][(OneCriterionAdded /\ UNCHANGED <<todos, todo_count>>) =>
        /\ drawRows' \subseteq drawRows
        /\ screen'.rows \subseteq drawRows
      ]_vars

\* With no other filter active, the search "mil" has been set on a store whose
\* second record ("Bob", category "Work") it hides and whose first it keeps.
C14_Witness ==
    /\ key = "/"
    /\ line = s_mil
    /\ filter_done = -1 /\ filter_category = <<>>
    /\ todos[1].text = s_Bob /\ todos[1].category = s_Work
    /\ todos[0].text = s_Milk
    /\ screen.rows = {0}

\* The texts of the rows on the screen.
VisibleTexts == {todos[i].text : i \in screen.rows}

\* C15: from an empty store with no filters, after Add("Buy milk"),
\* Add("Call Bob") and SetCategory(0, "Errands"), the category filter
\* "errands" typed in any letter case shows exactly the record "Buy milk".
C15_ErrandsShowsBuyMilk ==
    (/\ key = "C"
     /\ EqualIgnoringCase(line, s_errands)
     /\ todo_count = 2
     /\ todos[0] = Todo(s_BuyMilk, s_Errands, 0, 0)
     /\ todos[1] = Todo(s_CallBob, s_empty, 0, 0))
    => (screen.rows = {0} /\ VisibleTexts = {s_BuyMilk})

\* The sequence has been played from a start without a data file, the filter
\* typed as "eRrAnDs", and one row is on the screen.
C15_Witness ==
    /\ file = NoFile
    /\ key = "C"
    /\ line = s_eRrAnDs
    /\ filter_category = s_eRrAnDs
    /\ filter_done = -1 /\ search_term = <<>>
    /\ todo_count = 2
    /\ todos[0] = Todo(s_BuyMilk, s_Errands, 0, 0)
    /\ todos[1] = Todo(s_CallBob, s_empty, 0, 0)
    /\ Cardinality(screen.rows) = 1

\* C16: after 'r' the category filter is empty, the completion filter is
\* 'all' and the search term is empty, so every record of the store is
\* visible; the records and the count are as before.
C16_ResetShowsAll ==
    [][key' = "r" =>
        /\ filter_category' = <<>>
        /\ filter_done' = -1
        /\ search_term' = <<>>
        /\ \A i \in 0..(todo_count' - 1) : todo_matches_filter(i)' = 1
        /\ screen'.rows = 0..(todo_count' - 1)
        /\ UNCHANGED <<todos, todo_count>>
      ]_vars

\* 'r' has been pressed on a store of a pending "Milk" without category and a
\* done "Bob" of category "Work", which no single active filter shows
\* together: both rows are on the screen.
C16_Witness ==
    /\ key = "r"
    /\ todos[0] = Todo(s_Milk, s_empty, 0, 0)
    /\ todos[1] = Todo(s_Bob, s_Work, 0, 1)
    /\ screen.rows = {0, 1}
    /\ ~screen.nomatch

\* Nothing but the record at the selection may differ after the step.
OnlySelectedRecord ==
    /\ UNCHANGED <<todo_count, selected, filter_category, filter_done, search_term>>
    /\ DOMAIN todos' = DOMAIN todos
    /\ \A j \in DOMAIN todos : j # selected => todos'[j] = todos[j]

\* C17: on a non-empty store, toggle flips only done of the selected record
\* (so a second toggle restores it), edit with a non-empty line replaces only
\* its text, set category replaces only its category, with whatever line was
\* typed (an empty one clears it); count, the other records, the other fields
\* of the record, the selection and the filter state are unchanged.
C17_MutatorsChangeOwnField ==
    [][(todo_count > 0 /\ key' \in {" ", "e", "c"}) =>
        LET r == todos[selected]
            n == todos'[selected]
        IN  /\ OnlySelectedRecord
            /\ key' = " " =>
                 /\ n.done = 1 - r.done
                 /\ n.text = r.text /\ n.category = r.category /\ n.due_date = r.due_date
            /\ key' = "e" =>
                 /\ n.text = IF line' # <<>> THEN line' ELSE r.text
                 /\ n.category = r.category /\ n.due_date = r.due_date /\ n.done = r.done
            /\ key' = "c" =>
                 /\ n.category = line'
                 /\ n.text = r.text /\ n.due_date = r.due_date /\ n.done = r.done
      ]_vars

\* An empty line at the category prompt has cleared the category of the second
\* record, a done "Bob" with a due date, under a search term and a category
\* filter, the first record keeping its category.
C17_Witness ==
    /\ key = "c"
    /\ line = <<>>
    /\ selected = 1
    /\ todos[1].category = <<>>
    /\ todos[1].text = s_Bob /\ todos[1].done = 1 /\ todos[1].due_date # 0
    /\ todos[0].category = s_Work
    /\ search_term = s_mil
    /\ filter_category = s_Work

\* What draw_screen puts on the terminal for an empty store under the filter
\* state as it is: the filter line, no row, "No matching todos found.".
EmptyStoreScreen ==
    [header   |-> drawHeader,
     rows     |-> {},
     reversed |-> {},
     nomatch  |-> TRUE]

\* C18: a non-empty store whose every record is filtered out is not displayed
\* as the empty store is.
C18_EmptyStoreDistinguished ==
    todo_count > 0 => screen # EmptyStoreScreen

\* C19: whenever at least one record passes the filter, the selected index is
\* that of a record that passes it, and its row is the highlighted one.
C19_SelectedIsVisible ==
    (pc = "browsing" /\ drawRows # {}) =>
        /\ selected \in drawRows
        /\ screen # BlankScreen => screen.reversed = {selected}

\* C20: the commands 'C', 'f' and '/' leave the count and every record as
\* they are and put the selection at 0; on an empty store the commands 'd',
\* space, 'e', 'D' and 'c' change nothing; the count is never negative.
C20_FiltersAndGuardsKeepStore ==
    [][/\ key' \in {"C", "f", "/"} =>
            /\ UNCHANGED <<todos, todo_count, file>>
            /\ selected' = 0
       /\ (todo_count = 0 /\ key' \in {"d", " ", "e", "D", "c"}) =>
            UNCHANGED <<todos, todo_count, selected, filter_category, filter_done,
                        search_term, file>>
       /\ todo_count' >= 0
      ]_vars

\* 'd' has been pressed on an empty store, after the category filter and the
\* search term were typed.
C20_Witness ==
    /\ key = "d"
    /\ old_count = 0
    /\ todo_count = 0
    /\ filter_category = s_Work
    /\ search_term = s_mil

====
